---- MODULE Spec2Model ----
(***************************************************************************)
(* Model of cli_script_commands.ScriptCommands: a registry that turns the  *)
(* documented parameters of a function into an argparse sub-command        *)
(* (add_function / _add_command), parses sys.argv (render_menu) and calls  *)
(* the selected function with the parsed values as keyword arguments       *)
(* (execute).  The argparse calls the class makes are modelled by what     *)
(* the library does for the argument shapes the class configures.          *)
(***************************************************************************)
EXTENDS Integers, Sequences, FiniteSets, TLC

VARIABLES
    docs,         \* function.__doc__ of each function, as parsed
    sys_argv,     \* sys.argv[1:], read by parse_args() in render_menu
    _subparsers,  \* self._subparsers: command name -> configured sub-parser
    _args,        \* self._args: None, or the Namespace of the last parse
    lastOp,       \* the method that ran last
    raised,       \* the exception that method ended with ("none": returned)
    out,          \* what that method printed, in order
    called        \* the calls of registered functions that method made

vars == <<docs, sys_argv, _subparsers, _args, lastOp, raised, out, called>>

----------------------------------------------------------------------------
(* Bounds of the model. *)

\* a docstring documents at most MaxParams different parameters
MaxParams == 1
\* sys.argv holds at most MaxRest words after the command word
MaxRest == 2

----------------------------------------------------------------------------
(* Python values.  Every value is a record of the same shape: its type, *)
(* its strings (the characters of a str as one word, the items of a     *)
(* list) and its number.                                                *)

None == [t |-> "NoneType", s |-> <<>>, n |-> 0]
PyBool(b) == [t |-> "bool", s |-> <<>>, n |-> IF b THEN 1 ELSE 0]
PyInt(k) == [t |-> "int", s |-> <<>>, n |-> k]
PyFloat(k) == [t |-> "float", s |-> <<>>, n |-> k]
PyStr(word) == [t |-> "str", s |-> <<word>>, n |-> 0]
PyList(words) == [t |-> "list", s |-> words, n |-> 0]
PyEmptyDict == [t |-> "dict", s |-> <<>>, n |-> 0]
PyFunction(name) == [t |-> "function", s |-> <<name>>, n |-> 0]

\* bool(v), as `not self._args.cmd` evaluates it
Truthy(v) ==
    CASE v.t = "NoneType" -> FALSE
      [] v.t \in {"bool", "int", "float"} -> v.n # 0
      [] v.t = "str" -> v.s[1] # ""
      [] v.t = "list" -> v.s # <<>>
      [] v.t = "dict" -> FALSE
      [] OTHER -> TRUE

\* callable(v)
Callable(v) == v.t = "function"

----------------------------------------------------------------------------
(* The functions of the program and their docstrings, as                 *)
(* docstring_parser.parse hands them to add_function.                    *)

\* function.__name__ of the functions the program registers
Functions == {"f", "g"}

\* pa.arg_name of a documented parameter; "cmd" and "func" are also the
\* names render_menu and execute use for their own fields
ParamNames == {"x", "cmd", "func"}

\* the names the builtins module defines, as far as a docstring uses them here
Builtins == {"bool", "int", "float", "str", "list", "dict", "True"}

\* pa.type_name of a documented parameter: a builtin, or a name builtins lacks
TypeNames == Builtins \cup {"MyType"}

\* one entry of parsed_doc_string.params
Params == [arg_name : ParamNames, is_optional : BOOLEAN, type_name : TypeNames]

SeqsUpTo(S, k) == UNION {[1..m -> S] : m \in 0..k}

\* parsed_doc_string.params: at most MaxParams parameters, the last of them
\* possibly documented twice
Docstrings ==
    LET base == SeqsUpTo(Params, MaxParams)
    IN  base \cup {Append(d, d[Len(d)]) : d \in base \ {<<>>}}

\* the docstrings a function of the program may carry: f any, g one that
\* documents no parameter
DocstringsOf(function) == IF function = "f" THEN Docstrings ELSE {<<>>}

----------------------------------------------------------------------------
(* add_function: the argument specifications.                            *)

\* "--" + name
OptionString(name) ==
    CASE name = "x" -> "--x"
      [] name = "cmd" -> "--cmd"
      [] name = "func" -> "--func"

OptionStrings == {OptionString(n) : n \in ParamNames}

\* f"{'--' if pa.is_optional else ''}{pa.arg_name}"
DisplayName(pa) ==
    IF pa.is_optional THEN OptionString(pa.arg_name) ELSE pa.arg_name

\* getattr(builtins, pa.type_name) succeeds
Resolves(type_name) == type_name \in Builtins

\* the "args" list of func_spec
ArgSpecs(doc) ==
    [i \in 1..Len(doc) |->
        [name |-> DisplayName(doc[i]), type |-> doc[i].type_name]]

----------------------------------------------------------------------------
(* _add_command: the sub-parser argparse builds.                         *)

EmptyMap == [k \in {} |-> None]

\* the dest argparse derives from the first argument of add_argument: an
\* option string loses its leading dashes, a positional name is the dest
Dest(name) ==
    IF name \in OptionStrings
    THEN CHOOSE n \in ParamNames : OptionString(n) = name
    ELSE name

\* the keyword arguments _add_command picks by the type, and the action
\* add_argument makes of them
MakeAction(arg) ==
    LET option == arg.name \in OptionStrings
    IN  IF arg.type = "bool"
        THEN [name |-> arg.name, dest |-> Dest(arg.name), option |-> option,
              kind |-> "store_true", nargs |-> "0", type |-> "None",
              default |-> PyBool(FALSE), const |-> PyBool(TRUE),
              required |-> ~option]
        ELSE IF arg.type = "list"
        THEN [name |-> arg.name, dest |-> Dest(arg.name), option |-> option,
              kind |-> "store", nargs |-> "+", type |-> "str",
              default |-> None, const |-> None, required |-> ~option]
        ELSE [name |-> arg.name, dest |-> Dest(arg.name), option |-> option,
              kind |-> "store", nargs |-> "?", type |-> arg.type,
              default |-> None, const |-> None, required |-> FALSE]

\* add_argument raises ValueError for a type that is not callable
TypeIsCallable(type) == type # "True"

\* add_argument raises ArgumentError for an option string the parser has
Conflicts(actions, action) ==
    action.option /\ \E i \in 1..Len(actions) :
        actions[i].option /\ actions[i].name = action.name

\* the loop over args: the actions added before the first add_argument
\* that raises, and what it raised
RECURSIVE AddArguments(_, _, _)
AddArguments(actions, args, i) ==
    IF i > Len(args) THEN [actions |-> actions, raised |-> "none"]
    ELSE LET action == MakeAction(args[i])
         IN  IF ~TypeIsCallable(action.type)
             THEN [actions |-> actions, raised |-> "ValueError"]
             ELSE IF Conflicts(actions, action)
             THEN [actions |-> actions, raised |-> "ArgumentError"]
             ELSE AddArguments(Append(actions, action), args, i + 1)

\* subparser.set_defaults(func=function): the parser default, which also
\* replaces the default of every action whose dest is "func"
SetDefaults(actions, function) ==
    [actions |->
        [i \in 1..Len(actions) |->
            IF actions[i].dest = "func"
            THEN [actions[i] EXCEPT !.default = PyFunction(function)]
            ELSE actions[i]],
     defaults |-> "func" :> PyFunction(function)]

\* _add_command(command_settings): the name -> parser map afterwards and
\* the exception raised
AddCommand(parsers, function, args) ==
    IF function \in DOMAIN parsers
    THEN [parsers |-> parsers, raised |-> "ArgumentError"]
    ELSE LET added == AddArguments(<<>>, args, 1)
         IN  IF added.raised # "none"
             THEN [parsers |-> parsers @@
                       (function :> [actions |-> added.actions,
                                     defaults |-> EmptyMap]),
                   raised |-> added.raised]
             ELSE [parsers |-> parsers @@
                       (function :> SetDefaults(added.actions, function)),
                   raised |-> "none"]

\* add_function as it would be were the sub-parser created before the
\* type names are resolved
AddFunction_ParserFirst(parsers, function, doc) ==
    IF \E i \in 1..Len(doc) : ~Resolves(doc[i].type_name)
    THEN [parsers |-> IF function \in DOMAIN parsers THEN parsers
                      ELSE parsers @@ (function :> [actions |-> <<>>,
                                                    defaults |-> EmptyMap]),
          raised |-> "AttributeError"]
    ELSE AddCommand(parsers, function, ArgSpecs(doc))

\* add_function(function): getattr(builtins, pa.type_name) raises
\* AttributeError before _add_command is reached
AddFunction(parsers, function, doc) ==
    IF \E i \in 1..Len(doc) : ~Resolves(doc[i].type_name)
    THEN [parsers |-> parsers, raised |-> "AttributeError"]
    ELSE AddCommand(parsers, function, ArgSpecs(doc))

----------------------------------------------------------------------------
(* render_menu: self._parser.parse_args() on sys.argv[1:].               *)

\* the words of a command line after the command word
ValueWords == {"a", "0", ""}
ArgWords == OptionStrings \cup ValueWords

\* _parse_optional: a word that starts with "-" is an option string, of
\* this parser or unknown to it; the empty word and the others are arguments
IsOptionWord(word) == word \in OptionStrings

\* type_func(arg_string) in _get_value: the converted value, or ok = FALSE
\* where the conversion raises ValueError
Convert(type, word) ==
    CASE type = "str" -> [ok |-> TRUE, value |-> PyStr(word)]
      [] type = "int" -> [ok |-> word = "0", value |-> PyInt(0)]
      [] type = "float" -> [ok |-> word = "0", value |-> PyFloat(0)]
      [] type = "dict" -> [ok |-> word = "", value |-> PyEmptyDict]
      [] OTHER -> [ok |-> FALSE, value |-> None]

\* _get_values(action, arg_strings)
GetValues(action, words) ==
    IF words = <<>> /\ action.nargs = "?"
    THEN [ok |-> TRUE,
          value |-> IF action.option THEN action.const ELSE action.default]
    ELSE IF Len(words) = 1 /\ action.nargs = "?"
    THEN Convert(action.type, words[1])
    ELSE [ok |-> \A i \in 1..Len(words) : Convert(action.type, words[i]).ok
                    \/ action.nargs = "0",
          value |-> PyList(words)]

\* take_action: _StoreAction stores the values, _StoreTrueAction its const
TakeAction(actions, st, k, words) ==
    LET got == GetValues(actions[k], words)
        stored == IF actions[k].kind = "store_true"
                  THEN actions[k].const ELSE got.value
    IN  IF ~got.ok THEN [st EXCEPT !.error = TRUE]
        ELSE [st EXCEPT !.ns = (actions[k].dest :> stored) @@ @,
                        !.seen = @ \cup {k}]

\* the least and the most argument words the pattern of an nargs matches
MinArgs(nargs) == IF nargs = "+" THEN 1 ELSE 0
MaxArgs(nargs, n) == CASE nargs = "+" -> n [] nargs = "?" -> 1 [] OTHER -> 0

\* the number of argument words from index i up to the next option string
RECURSIVE LeadingArgs(_, _)
LeadingArgs(words, i) ==
    IF i > Len(words) \/ IsOptionWord(words[i]) THEN 0
    ELSE 1 + LeadingArgs(words, i + 1)

RECURSIVE SumMin(_, _, _, _)
SumMin(actions, positionals, from, to) ==
    IF from > to THEN 0
    ELSE MinArgs(actions[positionals[from]].nargs)
            + SumMin(actions, positionals, from + 1, to)

Min(a, b) == IF a < b THEN a ELSE b

\* the words each group of the greedy match of the first m positionals
\* takes of n argument words, from the k-th group on
RECURSIVE Counts(_, _, _, _, _, _)
Counts(actions, positionals, n, m, k, used) ==
    IF k > m THEN <<>>
    ELSE LET c == Min(MaxArgs(actions[positionals[k]].nargs, n),
                      n - used - SumMin(actions, positionals, k + 1, m))
         IN  <<c>> \o Counts(actions, positionals, n, m, k + 1, used + c)

\* _match_arguments_partial: the longest prefix of the positionals whose
\* patterns match a prefix of n argument words, and the words each takes
MatchPartial(actions, positionals, n) ==
    LET fits == {m \in 1..Len(positionals) :
                    SumMin(actions, positionals, 1, m) <= n}
    IN  IF fits = {} THEN <<>>
        ELSE Counts(actions, positionals, n,
                    CHOOSE m \in fits : \A o \in fits : o <= m, 1, 0)

\* the loop of consume_positionals: take_action for each matched
\* positional with its slice of the words
RECURSIVE TakePositionals(_, _, _, _, _)
TakePositionals(actions, words, counts, st, k) ==
    IF k > Len(counts) \/ st.error THEN st
    ELSE TakePositionals(actions, words, counts,
            [TakeAction(actions, st, st.positionals[k],
                        SubSeq(words, st.i, st.i + counts[k] - 1))
                EXCEPT !.i = @ + counts[k]],
            k + 1)

\* consume_positionals(start_index)
ConsumePositionals(actions, words, st) ==
    LET counts == MatchPartial(actions, st.positionals,
                               LeadingArgs(words, st.i))
    IN  [TakePositionals(actions, words, counts, st, 1)
            EXCEPT !.positionals = SubSeq(@, Len(counts) + 1, Len(@))]

\* consume_optional(start_index)
ConsumeOptional(actions, words, st) ==
    LET known == {k \in 1..Len(actions) :
                    actions[k].option /\ actions[k].name = words[st.i]}
    IN  IF known = {}
        THEN [st EXCEPT !.extras = Append(@, words[st.i]), !.i = @ + 1]
        ELSE LET k == CHOOSE j \in known : TRUE
                 n == LeadingArgs(words, st.i + 1)
                 count == Min(MaxArgs(actions[k].nargs, n), n)
             IN  IF count < MinArgs(actions[k].nargs)
                 THEN [st EXCEPT !.error = TRUE]
                 ELSE [TakeAction(actions, st, k,
                           SubSeq(words, st.i + 1, st.i + count))
                         EXCEPT !.i = @ + 1 + count]

\* the loop of _parse_known_args: positionals and optionals in turn up to
\* the last option string, then the remaining positionals
RECURSIVE ParseLoop(_, _, _)
ParseLoop(actions, words, st) ==
    LET options == {j \in 1..Len(words) : IsOptionWord(words[j])}
        ahead == {j \in options : j >= st.i}
    IN  IF st.error THEN st
        ELSE IF ahead = {}
        THEN LET last == ConsumePositionals(actions, words, st)
             IN  [last EXCEPT !.extras =
                     @ \o SubSeq(words, last.i, Len(words)),
                              !.i = Len(words) + 1]
        ELSE LET next == CHOOSE j \in ahead : \A o \in ahead : j <= o
                 pos == IF st.i # next
                        THEN ConsumePositionals(actions, words, st) ELSE st
                 skipped == IF pos.i \notin options
                            THEN [pos EXCEPT !.extras =
                                     @ \o SubSeq(words, pos.i, next - 1),
                                             !.i = next]
                            ELSE pos
             IN  IF pos.error THEN pos
                 ELSE IF pos.i > st.i THEN ParseLoop(actions, words, pos)
                 ELSE ParseLoop(actions, words,
                                ConsumeOptional(actions, words, skipped))

\* the namespace a sub-parser starts from: the default of the first action
\* of each dest, then the parser defaults for the names still missing
InitialNamespace(parser) ==
    LET actions == parser.actions
        dests == {actions[k].dest : k \in 1..Len(actions)}
        first(d) == CHOOSE k \in 1..Len(actions) :
                        /\ actions[k].dest = d
                        /\ \A j \in 1..(k - 1) : actions[j].dest # d
    IN  [d \in dests \cup DOMAIN parser.defaults |->
            IF d \in dests THEN actions[first(d)].default
            ELSE parser.defaults[d]]

\* _get_positional_actions(): the actions without option strings, in order
RECURSIVE PositionalActions(_, _)
PositionalActions(actions, k) ==
    IF k > Len(actions) THEN <<>>
    ELSE (IF actions[k].option THEN <<>> ELSE <<k>>)
            \o PositionalActions(actions, k + 1)

\* parser.parse_known_args(arg_strings, None) of a sub-parser: the
\* namespace and the unrecognized words, or error where the parser exits
SubParse(parser, words) ==
    LET actions == parser.actions
        start == [i |-> 1,
                  positionals |-> PositionalActions(actions, 1),
                  ns |-> InitialNamespace(parser),
                  seen |-> {}, extras |-> <<>>, error |-> FALSE]
        end == ParseLoop(actions, words, start)
        missing == \E k \in 1..Len(actions) :
                      actions[k].required /\ k \notin end.seen
    IN  [end EXCEPT !.error = @ \/ missing]

\* self._parser.parse_args(): the top-level parser has the sub-command
\* action alone (dest "cmd", not required).  The first argument word and
\* all that follows go to it; it sets cmd, lets the chosen sub-parser parse
\* the rest into a namespace of its own and copies every name of that
\* namespace over the top-level one.  An option string before the command
\* word, an unknown command, an error of the sub-parser and unrecognized
\* words all end in parser.error(), which exits.
ParseArgs(parsers, argv) ==
    IF argv = <<>> THEN [ok |-> TRUE, ns |-> "cmd" :> None]
    ELSE IF IsOptionWord(argv[1]) \/ argv[1] \notin DOMAIN parsers
    THEN [ok |-> FALSE, ns |-> EmptyMap]
    ELSE LET sub == SubParse(parsers[argv[1]], Tail(argv))
         IN  IF sub.error \/ sub.extras # <<>>
             THEN [ok |-> FALSE, ns |-> EmptyMap]
             ELSE [ok |-> TRUE, ns |-> sub.ns @@ ("cmd" :> PyStr(argv[1]))]

----------------------------------------------------------------------------
(* execute                                                               *)

\* the dict comprehension: every field but cmd and func that is not None
ArgDict(ns) ==
    [k \in {d \in DOMAIN ns : d \notin {"cmd", "func"} /\ ns[d] # None}
        |-> ns[k]]

----------------------------------------------------------------------------
(* The state machine.                                                    *)

\* sys.argv[1:]: empty, or a command word and up to MaxRest words
Argvs ==
    {<<>>} \cup {<<c>> \o rest : c \in Functions,
                                 rest \in SeqsUpTo(ArgWords, MaxRest)}

NoArgs == [set |-> FALSE, ns |-> EmptyMap]

\* the method that ran last and, for add_function, its argument
Op(name, function) == [name |-> name, function |-> function]

\* the state after ScriptCommands(), in a program whose functions carry
\* some docstrings and that was started with one of the command lines
InitWith(argvs) ==
    /\ docs \in [Functions -> Docstrings]
    /\ \A function \in Functions : docs[function] \in DocstringsOf(function)
    /\ sys_argv \in argvs
    /\ _subparsers = EmptyMap
    /\ _args = NoArgs
    /\ lastOp = Op("__init__", "")
    /\ raised = "none"
    /\ out = <<>>
    /\ called = <<>>

Init == InitWith(Argvs)

\* add_function(function), for a function of the program; the program
\* adds its functions before it renders the menu
add_function(function) ==
    /\ lastOp.name \in {"__init__", "add_function"}
    /\ LET r == AddFunction(_subparsers, function, docs[function])
       IN  /\ _subparsers' = r.parsers
           /\ raised' = r.raised
    /\ lastOp' = Op("add_function", function)
    /\ out' = <<>>
    /\ called' = <<>>
    /\ UNCHANGED <<docs, sys_argv, _args>>

\* render_menu as it would be were the help not printed before the raise
MenuOutcome_NoHelp(ns) ==
    IF ~Truthy(ns["cmd"])
    THEN [out |-> <<"no arguments passed to cli">>,
          raised |-> "NoArgumentsPassed"]
    ELSE [out |-> <<>>, raised |-> "none"]

\* the rest of render_menu once parse_args has returned a namespace: with
\* no cmd it prints the message and the help and raises NoArgumentsPassed
MenuOutcome(ns) ==
    IF ~Truthy(ns["cmd"])
    THEN [out |-> <<"no arguments passed to cli", "help">>,
          raised |-> "NoArgumentsPassed"]
    ELSE [out |-> <<>>, raised |-> "none"]

\* self._args after render_menu, given what parse_args did: the namespace
\* it returned, or the old value where it exited
StoredArgs(old, r) == IF r.ok THEN [set |-> TRUE, ns |-> r.ns] ELSE old

\* render_menu()
render_menu ==
    /\ LET r == ParseArgs(_subparsers, sys_argv)
       IN  /\ _args' = StoredArgs(_args, r)
           /\ IF ~r.ok
              THEN /\ raised' = "SystemExit"
                   /\ out' = <<"usage error">>
              ELSE /\ raised' = MenuOutcome(r.ns).raised
                   /\ out' = MenuOutcome(r.ns).out
    /\ lastOp' = Op("render_menu", "")
    /\ called' = <<>>
    /\ UNCHANGED <<docs, sys_argv, _subparsers>>

\* what execute() does with self._args: the exception it ends with and
\* the call it makes
Execute(args) ==
    IF ~args.set
    THEN [raised |-> "TypeError", called |-> <<>>]
    ELSE IF "func" \notin DOMAIN args.ns
    THEN [raised |-> "AttributeError", called |-> <<>>]
    ELSE IF ~Callable(args.ns["func"])
    THEN [raised |-> "TypeError", called |-> <<>>]
    ELSE [raised |-> "none",
          called |-> <<[function |-> args.ns["func"].s[1],
                        kwargs |-> ArgDict(args.ns)]>>]

\* execute()
execute ==
    /\ raised' = Execute(_args).raised
    /\ called' = Execute(_args).called
    /\ lastOp' = Op("execute", "")
    /\ out' = <<>>
    /\ UNCHANGED <<docs, sys_argv, _subparsers, _args>>

Next ==
    \/ \E function \in Functions : add_function(function)
    \/ render_menu
    \/ execute

Spec == Init /\ [][Next]_vars

\* the program started without command-line words
InitNoWords == InitWith({<<>>})

SpecNoWords == InitNoWords /\ [][Next]_vars

----------------------------------------------------------------------------
(* What the claims speak of.                                             *)

\* add_function(function) has returned: its sub-command is configured
\* and bound to the function
Registered(function) ==
    /\ function \in DOMAIN _subparsers
    /\ "func" \in DOMAIN _subparsers[function].defaults

\* a render_menu call has returned without raising
MenuRendered == _args.set /\ Truthy(_args.ns["cmd"])

\* the command line names a registered command, which the claims call the
\* selected sub-command
Selects(function) ==
    /\ sys_argv # <<>>
    /\ sys_argv[1] = function
    /\ Registered(function)

\* the words of the command line that follow the command word
Rest == Tail(sys_argv)

\* the names render_menu and execute use for their own fields
Bookkeeping == {"cmd", "func"}

\* the command line names the parameter pa: a positional has its place,
\* an optional its option string right after the command word
Named(pa) ==
    pa.is_optional => (Rest # <<>> /\ Rest[1] = OptionString(pa.arg_name))

\* the words the command line gives pa: those after its option string, or
\* those in its place
Given(pa) ==
    IF pa.is_optional THEN (IF Rest = <<>> THEN <<>> ELSE Tail(Rest))
    ELSE Rest

OnlyValues(words) == \A i \in 1..Len(words) : words[i] \in ValueWords

\* the one call execute() is to make for the selected command
TheCall(function, kwargs) == <<[function |-> function, kwargs |-> kwargs]>>

\* the docstring of function documents no parameter name twice
DistinctNames(function) ==
    \A i, j \in 1..Len(docs[function]) :
        i # j => docs[function][i].arg_name # docs[function][j].arg_name

\* the primitive type names of the specification
Primitives == {"bool", "int", "float", "str", "list"}

DeclaresOutside(function, known) ==
    \E i \in 1..Len(docs[function]) : docs[function][i].type_name \notin known

----------------------------------------------------------------------------
(* The claims.                                                           *)

\* C1: a parameter documented as an optional boolean (here: one not named
\* like a bookkeeping field) parses as a flag.  With the flag on the
\* command line the parsed result holds true and execute() passes true;
\* without it the parsed result holds None and execute() calls the
\* function without the parameter.
C1_BooleanFlag ==
    \A function \in Functions : \A i \in 1..Len(docs[function]) :
        LET pa == docs[function][i]
            name == pa.arg_name
            present == \E j \in 1..Len(Rest) : Rest[j] = OptionString(name)
        IN  (/\ pa.type_name = "bool"
             /\ pa.is_optional
             /\ name \notin Bookkeeping
             /\ Selects(function)
             /\ MenuRendered)
            => /\ _args.ns[name] = IF present THEN PyBool(TRUE) ELSE None
               /\ lastOp.name = "execute" =>
                    /\ Len(called) = 1
                    /\ IF present
                       THEN /\ name \in DOMAIN called[1].kwargs
                            /\ called[1].kwargs[name] = PyBool(TRUE)
                       ELSE name \notin DOMAIN called[1].kwargs

\* C2: after a render_menu that returned, execute() calls the function
\* bound to the selected command (one documenting no parameter name
\* twice) exactly once, and the keyword arguments
\* are exactly the declared parameters whose parsed value is not None,
\* under their names and with their values, falsy ones included.
C2_ExecuteKeywords ==
    \A function \in Functions :
        (/\ DistinctNames(function)
         /\ Selects(function)
         /\ MenuRendered
         /\ lastOp.name = "execute")
        => LET declared == {docs[function][i].arg_name :
                               i \in 1..Len(docs[function])}
               passed == {n \in declared :
                             _args.ns[n] # None /\ ~Callable(_args.ns[n])}
           IN  called = TheCall(function, [n \in passed |-> _args.ns[n]])

\* C3: render_menu on a command line without a sub-command prints the
\* message and the help and ends with NoArgumentsPassed, whatever commands
\* are registered, and no registered function is called in such a run.
C3_NoSubcommand ==
    sys_argv = <<>> =>
        /\ lastOp.name = "render_menu" =>
              /\ raised = "NoArgumentsPassed"
              /\ out = <<"no arguments passed to cli", "help">>
        /\ called = <<>>

C3_Witness ==
    /\ sys_argv = <<>>
    /\ lastOp.name = "render_menu"
    /\ raised = "NoArgumentsPassed"
    /\ \A function \in Functions : Registered(function)
    /\ docs["f"] # <<>>

\* C4 as stated: a function whose docstring declares a type name outside
\* the primitive set never becomes a sub-command, and add_function of it
\* raises.
C4_NonPrimitiveRejected ==
    \A function \in Functions :
        DeclaresOutside(function, Primitives)
        => /\ function \notin DOMAIN _subparsers
           /\ lastOp = Op("add_function", function) => raised # "none"

\* C4 as amended: a function whose docstring declares a type name that
\* builtins does not define never becomes a sub-command; add_function of
\* it raises AttributeError and leaves every sub-parser as it was.
C4_UnknownNameRejected ==
    [][\A function \in Functions :
          DeclaresOutside(function, Builtins)
          => /\ function \notin DOMAIN _subparsers'
             /\ lastOp' = Op("add_function", function)
                => /\ raised' = "AttributeError"
                   /\ _subparsers' = _subparsers]_vars

C4_Witness ==
    /\ DeclaresOutside("f", Builtins)
    /\ lastOp = Op("add_function", "f")
    /\ raised = "AttributeError"
    /\ Registered("g")

\* C5: as long as no render_menu has returned normally, execute() ends
\* with an error and calls no function (the functions documenting no
\* parameter name twice).
C5_ExecuteBeforeParseFails ==
    (/\ \A function \in Functions : DistinctNames(function)
     /\ lastOp.name = "execute"
     /\ ~MenuRendered)
    => (raised # "none" /\ called = <<>>)

\* C6: the one parameter of the selected command is documented as a list.
\* Given one or more words, render_menu returns with the list of those
\* words in order and execute() passes that list; named with no word,
\* render_menu ends in a usage error and stores nothing.
C6_ListParameter ==
    \A function \in Functions :
        (/\ Selects(function)
         /\ Len(docs[function]) = 1
         /\ docs[function][1].type_name = "list"
         /\ Named(docs[function][1])
         /\ OnlyValues(Given(docs[function][1])))
        => LET name == docs[function][1].arg_name
               words == Given(docs[function][1])
           IN  IF words = <<>>
               THEN lastOp.name = "render_menu"
                    => (raised = "SystemExit" /\ ~_args.set)
               ELSE /\ lastOp.name = "render_menu"
                       => (raised = "none" /\ _args.ns[name] = PyList(words))
                    /\ (lastOp.name = "execute" /\ _args.set)
                       => called = TheCall(function, name :> PyList(words))

\* C7: the one parameter of the selected command is documented as int,
\* float or str, optional or not.  Given no word, render_menu returns
\* with None for it and execute() omits it; given one word, the parsed
\* result and the keyword argument hold the converted word; a word that
\* does not convert ends render_menu in a usage error, nothing is stored
\* and no function is called.
C7_ScalarParameter ==
    \A function \in Functions :
        (/\ Selects(function)
         /\ Len(docs[function]) = 1
         /\ docs[function][1].type_name \in {"int", "float", "str"}
         /\ (Rest = <<>> \/ Named(docs[function][1]))
         /\ OnlyValues(Given(docs[function][1]))
         /\ Len(Given(docs[function][1])) <= 1)
        => LET name == docs[function][1].arg_name
               words == Given(docs[function][1])
               conv == Convert(docs[function][1].type_name, words[1])
           IN  IF words = <<>>
               THEN /\ lastOp.name = "render_menu"
                       => (raised = "none" /\ _args.ns[name] = None)
                    /\ (lastOp.name = "execute" /\ _args.set)
                       => called = TheCall(function, EmptyMap)
               ELSE IF conv.ok
               THEN /\ lastOp.name = "render_menu"
                       => (raised = "none" /\ _args.ns[name] = conv.value)
                    /\ (lastOp.name = "execute" /\ _args.set)
                       => called = TheCall(function, name :> conv.value)
               ELSE /\ lastOp.name = "render_menu"
                       => (raised = "SystemExit" /\ ~_args.set)
                    /\ called = <<>>

\* C8: after a render_menu that returned, the parsed result names the
\* selected command and holds the function registered under that name,
\* and execute() calls that function, whatever the parameters are called
\* (no name documented twice).
C8_SelectedCallable ==
    \A function \in Functions :
        (DistinctNames(function) /\ Selects(function))
        => /\ (lastOp.name = "render_menu" /\ raised = "none")
              => /\ _args.ns["cmd"] = PyStr(function)
                 /\ _args.ns["func"] = PyFunction(function)
           /\ (lastOp.name = "execute" /\ MenuRendered)
              => (Len(called) = 1 /\ called[1].function = function)

\* C9: a render_menu that ends with NoArgumentsPassed leaves self._args
\* as it was.
C9_FailedParseKeepsArgs ==
    [][(lastOp'.name = "render_menu" /\ raised' = "NoArgumentsPassed")
          => _args' = _args]_vars

\* C10: the arguments of every configured sub-command have pairwise
\* distinct display names.
C10_DistinctDisplayNames ==
    \A function \in DOMAIN _subparsers :
        LET actions == _subparsers[function].actions
        IN  \A i, j \in 1..Len(actions) :
                i # j => actions[i].name # actions[j].name

====
